---- MODULE Spec2Model ----
(***************************************************************************)
(* Local Volume Explorer (lve-app): the data-to-visual pipeline.           *)
(*                                                                         *)
(*   loadData        src/lve-app/src/utils/dataUtils.js                    *)
(*   App             src/lve-app/src/main.jsx (lines 13-105)               *)
(*   GalaxyParticles src/lve-app/src/components/GalaxyParticles.jsx        *)
(*                                                                         *)
(* Numbers.  Every JavaScript number of the model is a fixed-point integer *)
(* counting tenths: 9.0 is 90, 1000 kpc is 10000, 5.5 is 55.  The inputs   *)
(* are chosen so that every operation of the code is exact in tenths:      *)
(* coordinates and distances are multiples of 100 kpc (so x/1000 is exact) *)
(* and a catalog read on the linear mass scale carries only powers of ten  *)
(* as positive masses (so Math.log10 is exact).                            *)
(*                                                                         *)
(* Values.  A JavaScript value is a record [t, n, s]: t is the type tag    *)
(* ("undefined", "null", "number", "string"), n the number (tenths), s the *)
(* string as a sequence of one-character strings.  "undefined" in a row or *)
(* record field means the key is absent.                                   *)
(***************************************************************************)
EXTENDS Integers, Sequences, FiniteSets, TLC

VARIABLES
    rawRows,          \* results.data: the rows PapaParse hands to `complete`
    promise,          \* the promise loadData returned: "pending", "resolved", "rejected"
    massScale,        \* the scale loadData detected: "unset", "Linear", "Log"
    data,             \* App state `data`
    loading,          \* App state `loading`
    error,            \* App state `error` (Null or a string value)
    showLocalGroup,   \* App state `showLocalGroup`
    minMass,          \* App state `minMass` (tenths)
    maxDist,          \* App state `maxDist` (tenths)
    massThreshold,    \* App state `massThreshold` (tenths)
    searchQuery,      \* App state `searchQuery` (sequence of characters)
    userMarker,       \* App state `userMarker`: <<>> (null) or <<[x, y, z]>>
    hoveredGalaxy,    \* App state `hoveredGalaxy`: <<>> (null) or <<particle>>
    hoverUpdate,      \* the setHoveredGalaxy update queued by onHover and not yet
                      \* rendered: <<>> (none) or <<v>>, v the value passed
    pointer,          \* the latest pointer event R3F delivered to <points>
    view,             \* what is on screen: "loading", "error", "scene", or "crashed"
                      \* once an exception raised in a render has unmounted the tree
    thrown,           \* the component whose render raised: "none", "App", "UIOverlay"
    processedData,    \* App.processedData (useMemo)
    canvasProps,      \* the props of the latest render of <Canvas>'s own root:
                      \* <<>> (not rendered yet) or <<[data, massThreshold,
                      \* searchActive, userMarker]>>
    positions,        \* GalaxyParticles useMemo outputs
    colors,
    sizes,
    particles,
    matchedGalaxy,    \* <<>> (null) or <<record>>
    labeledGalaxies

vars == <<rawRows, promise, massScale, data, loading, error, showLocalGroup, minMass, maxDist,
          massThreshold, searchQuery, userMarker, hoveredGalaxy, hoverUpdate, pointer, view,
          thrown,
          processedData, canvasProps,
          positions, colors, sizes, particles, matchedGalaxy, labeledGalaxies>>

loadState == <<rawRows, promise, massScale, data, loading, error>>
appState == <<showLocalGroup, minMass, maxDist, massThreshold, searchQuery, userMarker>>
canvas == <<canvasProps, positions, colors, sizes, particles, matchedGalaxy,
            labeledGalaxies>>
rendered == <<processedData, canvas>>

-----------------------------------------------------------------------------
(* JavaScript values and the operators of the language the code uses.      *)

Undef == [t |-> "undefined", n |-> 0, s |-> <<>>]
Null == [t |-> "null", n |-> 0, s |-> <<>>]
Num(k) == [t |-> "number", n |-> k, s |-> <<>>]
Str(cs) == [t |-> "string", n |-> 0, s |-> cs]

\* v != null  (loose inequality: false for null and for undefined)
NotNullish(v) == v.t \notin {"null", "undefined"}

\* ToNumber(v) is a number other than NaN: numbers, and null (which is 0).
\* undefined and the non-numeric, non-empty strings of the model are NaN.
IsNumeric(v) == v.t \in {"number", "null"}
ToNumber(v) == IF v.t = "number" THEN v.n ELSE 0

\* a > b and a < b on values: false as soon as one side is NaN
JsGt(a, b) == IsNumeric(a) /\ IsNumeric(b) /\ ToNumber(a) > ToNumber(b)
JsLt(a, b) == IsNumeric(a) /\ IsNumeric(b) /\ ToNumber(a) < ToNumber(b)

\* ToBoolean(v)
Truthy(v) ==
    CASE v.t = "number" -> v.n # 0
      [] v.t = "string" -> v.s # <<>>
      [] OTHER -> FALSE

\* a || b
JsOr(a, b) == IF Truthy(a) THEN a ELSE b

\* v / 1000 on a number (exact on the multiples of 1000 tenths the model feeds it)
Div1000(v) == Num(ToNumber(v) \div 1000)

\* Math.log10 on a positive power of ten given in tenths: 10 (1.0) -> 0,
\* 100 (10.0) -> 10 (1.0), 1 (0.1) -> -10 (-1.0)
RECURSIVE Log10(_)
Log10(k) ==
    IF k = 10 THEN 0
    ELSE IF k < 10 THEN Log10(k * 10) - 10
    ELSE Log10(k \div 10) + 10

RECURSIVE IsPowerOfTen(_)
IsPowerOfTen(k) ==
    IF k <= 0 THEN FALSE
    ELSE IF k = 1 THEN TRUE
    ELSE k % 10 = 0 /\ IsPowerOfTen(k \div 10)

\* String.prototype.toLowerCase on the alphabet of the model
LowerChar(c) ==
    CASE c = "A" -> "a"
      [] c = "B" -> "b"
      [] OTHER -> c
ToLowerCase(cs) == [i \in 1..Len(cs) |-> LowerChar(cs[i])]

\* String.prototype.includes
Includes(hay, needle) ==
    \E i \in 0..(Len(hay) - Len(needle)) :
        \A j \in 1..Len(needle) : hay[i + j] = needle[j]

-----------------------------------------------------------------------------
(* loadData (dataUtils.js): the `complete` callback.                       *)

\* maxMass > 20 decides the linear scale
LinearThreshold == 200

\* the pre-scan: results.data.forEach(row => if (row.mass_stellar > maxMass) ...)
RECURSIVE MaxMassFrom(_, _, _)
MaxMassFrom(rows, i, maxMass) ==
    IF i > Len(rows) THEN maxMass
    ELSE MaxMassFrom(rows, i + 1,
                     IF JsGt(rows[i].mass_stellar, maxMass)
                     THEN rows[i].mass_stellar ELSE maxMass)

MaxMass(rows) == MaxMassFrom(rows, 1, Num(0))

IsLinear(rows) == JsGt(MaxMass(rows), Num(LinearThreshold))

\* mutant of HasCoords: the strict test `!== null`, which lets an absent
\* (undefined) coordinate through
HasCoordsStrict(row) ==
    row.sg_xx.t # "null" /\ row.sg_yy.t # "null" /\ row.sg_zz.t # "null"

\* .filter(row => row.sg_xx != null && row.sg_yy != null && row.sg_zz != null)
HasCoords(row) ==
    NotNullish(row.sg_xx) /\ NotNullish(row.sg_yy) /\ NotNullish(row.sg_zz)

RECURSIVE FilterCoords(_)
FilterCoords(rows) ==
    IF rows = <<>> THEN <<>>
    ELSE IF HasCoords(Head(rows)) THEN <<Head(rows)>> \o FilterCoords(Tail(rows))
    ELSE FilterCoords(Tail(rows))

\* mutant of MassLog: the scale decided row by row (mass > 20) instead of once
MassLogPerRow(row, isLinear) ==
    LET mass == JsOr(row.mass_stellar, Num(0))
    IN  IF JsGt(mass, Num(LinearThreshold)) THEN Num(Log10(ToNumber(mass))) ELSE mass

\* let mass = row.mass_stellar || 0; if (isLinear && mass > 0) mass = Math.log10(mass)
MassLog(row, isLinear) ==
    LET mass == JsOr(row.mass_stellar, Num(0))
    IN  IF isLinear /\ JsGt(mass, Num(0)) THEN Num(Log10(ToNumber(mass))) ELSE mass

\* { id: index, ...row, ... }: a row that carries an `id` column overrides the index
RecordId(row, index) == IF row.id.t # "undefined" THEN row.id ELSE Num(index * 10)

\* the .map callback; index is the 0-based position among the kept rows
MakeRecord(row, index, isLinear) ==
    [id |-> RecordId(row, index),
     sg_xx |-> row.sg_xx, sg_yy |-> row.sg_yy, sg_zz |-> row.sg_zz,
     mass_stellar |-> row.mass_stellar, distance |-> row.distance, name |-> row.name,
     x |-> Div1000(row.sg_xx), y |-> Div1000(row.sg_yy), z |-> Div1000(row.sg_zz),
     mass_log |-> MassLog(row, isLinear),
     dist_mpc |-> Div1000(JsOr(row.distance, Num(0)))]

Normalize(rows, isLinear) ==
    LET kept == FilterCoords(rows)
    IN  [i \in 1..Len(kept) |-> MakeRecord(kept[i], i - 1, isLinear)]

\* mutant of LoadData: no early return on an empty catalog, so the mass scan
\* runs and reports a scale
LoadDataNoEarlyReturn(rows) ==
    [records |-> Normalize(rows, IsLinear(rows)),
     scale |-> IF IsLinear(rows) THEN "Linear" ELSE "Log"]

\* what `complete` resolves with, and the scale it reports
LoadData(rows) ==
    IF Len(rows) = 0
    THEN [records |-> <<>>, scale |-> "unset"]
    ELSE [records |-> Normalize(rows, IsLinear(rows)),
          scale |-> IF IsLinear(rows) THEN "Linear" ELSE "Log"]

-----------------------------------------------------------------------------
(* App.processedData (main.jsx): the filter and the isMatch annotation.    *)

\* showLocalGroup && d.dist_mpc > 3.0
LocalGroupDist == 30

\* { ...d, isMatch: m }
WithIsMatch(d, m) ==
    [id |-> d.id, sg_xx |-> d.sg_xx, sg_yy |-> d.sg_yy, sg_zz |-> d.sg_zz,
     mass_stellar |-> d.mass_stellar, distance |-> d.distance, name |-> d.name,
     x |-> d.x, y |-> d.y, z |-> d.z, mass_log |-> d.mass_log,
     dist_mpc |-> d.dist_mpc, isMatch |-> m]

\* mutant of PassesFilter: the distance cut written `>=`, which drops a record
\* lying exactly on maxDist
PassesFilterExclusive(d, md, mm, lg) ==
    IF JsGt(d.dist_mpc, Num(md)) \/ d.dist_mpc = Num(md) THEN FALSE
    ELSE IF JsLt(d.mass_log, Num(mm)) THEN FALSE
    ELSE IF lg /\ JsGt(d.dist_mpc, Num(LocalGroupDist)) THEN FALSE
    ELSE TRUE

\* the .filter callback: three early `return false`, else `return true`
PassesFilter(d, md, mm, lg) ==
    IF JsGt(d.dist_mpc, Num(md)) THEN FALSE
    ELSE IF JsLt(d.mass_log, Num(mm)) THEN FALSE
    ELSE IF lg /\ JsGt(d.dist_mpc, Num(LocalGroupDist)) THEN FALSE
    ELSE TRUE

RECURSIVE FilterData(_, _, _, _)
FilterData(ds, md, mm, lg) ==
    IF ds = <<>> THEN <<>>
    ELSE IF PassesFilter(Head(ds), md, mm, lg)
         THEN <<Head(ds)>> \o FilterData(Tail(ds), md, mm, lg)
         ELSE FilterData(Tail(ds), md, mm, lg)

\* d.name.toLowerCase() raises a TypeError unless d.name is a string; it is
\* evaluated only when searchQuery is truthy
AnnotateThrows(d, q) == q # <<>> /\ d.name.t # "string"

\* isMatch: searchQuery ? d.name.toLowerCase().includes(lowerQuery) : true
IsMatch(d, q) ==
    IF q # <<>> THEN Includes(ToLowerCase(d.name.s), ToLowerCase(q)) ELSE TRUE

\* the useMemo body: threw is TRUE when the .map callback raised
ProcessedData(ds, md, mm, lg, q) ==
    LET kept == FilterData(ds, md, mm, lg)
    IN  IF \E i \in 1..Len(kept) : AnnotateThrows(kept[i], q)
        THEN [threw |-> TRUE, records |-> <<>>]
        ELSE [threw |-> FALSE,
              records |-> [i \in 1..Len(kept) |->
                              WithIsMatch(kept[i], IsMatch(kept[i], q))]]

-----------------------------------------------------------------------------
(* GalaxyParticles (GalaxyParticles.jsx): the useMemo that builds the      *)
(* attribute arrays, the pick list, the search match and the labels.       *)

\* t = (d.mass_log - 6.0) / 5.5, kept as the numerator of a fraction over 55
ColorMassMin == 60
ColorMassRange == 55

\* the size buckets: mass_log < 8.0, mass_log < 10.0
SizeSmallBelow == 80
SizeMidBelow == 100
SizeSmall == 15
SizeMid == 25
SizeLarge == 40

\* colorStops: t as a numerator over 55 (0.2 is 11), c the three hex bytes
ColorStops ==
    << [t |-> 0,  c |-> <<0, 0, 4>>],
       [t |-> 11, c |-> <<59, 15, 112>>],
       [t |-> 22, c |-> <<140, 41, 129>>],
       [t |-> 33, c |-> <<222, 73, 104>>],
       [t |-> 44, c |-> <<254, 159, 109>>],
       [t |-> 55, c |-> <<252, 253, 191>> ] >>

\* lerpColors(c1, c2, tSeg) with tSeg = (t - t1) / (t2 - t1): each channel
\* c1 + (c2 - c1) * tSeg, kept as a numerator over (t2 - t1) = 11
LerpColors(s1, s2, t) ==
    [k \in 1..3 |-> s1.c[k] * (s2.t - s1.t) + (s2.c[k] - s1.c[k]) * (t - s1.t)]

\* a control point's own colour on the same scale as LerpColors
StopColor(s) == [k \in 1..3 |-> s.c[k] * 11]

\* the `for` loop of getMagmaColor: the first segment that brackets t
RECURSIVE MagmaSegment(_, _)
MagmaSegment(t, i) ==
    IF i > Len(ColorStops) - 1 THEN StopColor(ColorStops[Len(ColorStops)])
    ELSE IF t >= ColorStops[i].t /\ t <= ColorStops[i + 1].t
         THEN LerpColors(ColorStops[i], ColorStops[i + 1], t)
         ELSE MagmaSegment(t, i + 1)

Max2(a, b) == IF a > b THEN a ELSE b
Min2(a, b) == IF a < b THEN a ELSE b

\* mutant of GetMagmaColor: t handed to the segment search without the clamp
GetMagmaColorUnclamped(massLog) ==
    IF ~IsNumeric(massLog) THEN StopColor(ColorStops[Len(ColorStops)])
    ELSE MagmaSegment(ToNumber(massLog) - ColorMassMin, 1)

\* getMagmaColor((mass_log - 6.0) / 5.5); a mass_log that is no number makes
\* t NaN, no segment brackets it and the last control point is returned
GetMagmaColor(massLog) ==
    IF ~IsNumeric(massLog) THEN StopColor(ColorStops[Len(ColorStops)])
    ELSE MagmaSegment(Max2(0, Min2(ColorMassRange, ToNumber(massLog) - ColorMassMin)), 1)

\* mutant of BaseSize: the bucket edges taken with <=
BaseSizeInclusive(massLog) ==
    IF ~JsGt(massLog, Num(SizeSmallBelow)) /\ IsNumeric(massLog) THEN SizeSmall
    ELSE IF ~JsGt(massLog, Num(SizeMidBelow)) /\ IsNumeric(massLog) THEN SizeMid
    ELSE SizeLarge

\* baseSize: if (d.mass_log < 8.0) 1.5 else if (d.mass_log < 10.0) 2.5 else 4.0
BaseSize(massLog) ==
    IF JsLt(massLog, Num(SizeSmallBelow)) THEN SizeSmall
    ELSE IF JsLt(massLog, Num(SizeMidBelow)) THEN SizeMid
    ELSE SizeLarge

\* pos.push(d.x, d.y, d.z) for every record, then new Float32Array(pos)
RECURSIVE BuildPositions(_)
BuildPositions(ds) ==
    IF ds = <<>> THEN <<>>
    ELSE <<ToNumber(Head(ds).x), ToNumber(Head(ds).y), ToNumber(Head(ds).z)>>
         \o BuildPositions(Tail(ds))

RECURSIVE BuildColors(_)
BuildColors(ds) ==
    IF ds = <<>> THEN <<>>
    ELSE GetMagmaColor(Head(ds).mass_log) \o BuildColors(Tail(ds))

BuildSizes(ds) == [i \in 1..Len(ds) |-> BaseSize(ds[i].mass_log)]

\* { ...d, originalIndex: i }
WithOriginalIndex(d, i) ==
    [id |-> d.id, sg_xx |-> d.sg_xx, sg_yy |-> d.sg_yy, sg_zz |-> d.sg_zz,
     mass_stellar |-> d.mass_stellar, distance |-> d.distance, name |-> d.name,
     x |-> d.x, y |-> d.y, z |-> d.z, mass_log |-> d.mass_log,
     dist_mpc |-> d.dist_mpc, isMatch |-> d.isMatch, originalIndex |-> i]

\* particlesList.push({ ...d, originalIndex: i })
BuildParticles(ds) == [i \in 1..Len(ds) |-> WithOriginalIndex(ds[i], i - 1)]

\* mutant of FindMatch: the first match is kept (a `find`, or a guarded
\* assignment) instead of the last
RECURSIVE FindMatchFirst(_, _, _, _)
FindMatchFirst(ds, i, searchActive, match) ==
    IF i > Len(ds) THEN match
    ELSE FindMatchFirst(ds, i + 1, searchActive,
                        IF searchActive /\ ds[i].isMatch /\ match = <<>>
                        THEN <<ds[i]>> ELSE match)

\* let match = null; forEach: if (searchActive && d.isMatch) match = d
RECURSIVE FindMatch(_, _, _, _)
FindMatch(ds, i, searchActive, match) ==
    IF i > Len(ds) THEN match
    ELSE FindMatch(ds, i + 1, searchActive,
                   IF searchActive /\ ds[i].isMatch THEN <<ds[i]>> ELSE match)

\* mutant of BuildLabeled: a record on the threshold labelled too (>=)
RECURSIVE BuildLabeledInclusive(_, _)
BuildLabeledInclusive(ds, thr) ==
    IF ds = <<>> THEN <<>>
    ELSE IF IsNumeric(Head(ds).mass_log) /\ ~JsLt(Head(ds).mass_log, Num(thr))
         THEN <<Head(ds)>> \o BuildLabeledInclusive(Tail(ds), thr)
         ELSE BuildLabeledInclusive(Tail(ds), thr)

\* if (d.mass_log > massThreshold) labeled.push(d)
RECURSIVE BuildLabeled(_, _)
BuildLabeled(ds, thr) ==
    IF ds = <<>> THEN <<>>
    ELSE IF JsGt(Head(ds).mass_log, Num(thr))
         THEN <<Head(ds)>> \o BuildLabeled(Tail(ds), thr)
         ELSE BuildLabeled(Tail(ds), thr)

\* mutant of ParticleBuffers: the match taken on isMatch alone, searchActive
\* not consulted
ParticleBuffersAnyMatch(ds, thr, searchActive) ==
    [positions |-> BuildPositions(ds),
     colors |-> BuildColors(ds),
     sizes |-> BuildSizes(ds),
     particles |-> BuildParticles(ds),
     matchedGalaxy |-> FindMatch(ds, 1, TRUE, <<>>),
     labeledGalaxies |-> BuildLabeled(ds, thr)]

\* the whole useMemo; searchActive is !!searchQuery
ParticleBuffers(ds, thr, searchActive) ==
    [positions |-> BuildPositions(ds),
     colors |-> BuildColors(ds),
     sizes |-> BuildSizes(ds),
     particles |-> BuildParticles(ds),
     matchedGalaxy |-> FindMatch(ds, 1, searchActive, <<>>),
     labeledGalaxies |-> BuildLabeled(ds, thr)]

\* nothing is built while GalaxyParticles is not mounted
NoBuffers ==
    [positions |-> <<>>, colors |-> <<>>, sizes |-> <<>>, particles |-> <<>>,
     matchedGalaxy |-> <<>>, labeledGalaxies |-> <<>>]

\* the position offset of a label: [g.x + 0.5, g.y + 0.5, g.z]
LabelOffset == 5

\* labeledGalaxies.map((g, i) => <Text key={`label-${i}`} position=...>{g.name}</Text>)
Labels ==
    [i \in 1..Len(labeledGalaxies) |->
        [key |-> i - 1,
         position |-> <<ToNumber(labeledGalaxies[i].x) + LabelOffset,
                        ToNumber(labeledGalaxies[i].y) + LabelOffset,
                        ToNumber(labeledGalaxies[i].z)>>,
         text |-> labeledGalaxies[i].name]]

\* {matchedGalaxy && <BlinkingMarker position={[x, y, z]} />}: the position
\* handed to the search-match marker, <<>> when no marker is rendered
PositionOf(d) == <<d.x, d.y, d.z>>
MarkerPosition == IF matchedGalaxy = <<>> THEN <<>> ELSE PositionOf(matchedGalaxy[1])

-----------------------------------------------------------------------------
(* Inputs: the catalogs PapaParse can hand over, and the values the        *)
(* controls of UIOverlay can set.                                          *)

\* the longest catalog of the loader runs and of the application runs
MaxLoadRows == 2
MaxAppRows == 2

Row(xx, yy, zz, mass, dist, name, id) ==
    [sg_xx |-> xx, sg_yy |-> yy, sg_zz |-> zz, mass_stellar |-> mass,
     distance |-> dist, name |-> name, id |-> id]

NameAb == Str(<<"A", "b">>)
NameB == Str(<<"b">>)

\* a cell dynamicTyping leaves as text, such as "nan"
TextCell == Str(<<"n", "a", "n">>)

\* mass_stellar cells: empty, 0, 1.0, 9.0, 20.0, 100, 1e8, and a text cell
MassCells ==
    {Null, Num(0), Num(10), Num(90), Num(200), Num(1000), Num(1000000000), TextCell}

\* coordinate cells: all present; sg_yy empty; sg_zz absent (a short line)
CoordCells ==
    { <<Num(10000), Num(20000), Num(30000)>>,
      <<Num(-20000), Null, Num(10000)>>,
      <<Num(20000), Num(10000), Undef>> }

\* the loader runs: every coordinate case with every mass cell; rows of a
\* catalog with an `id` column; a row with an empty name and an id of 7
LoadRows ==
    { Row(c[1], c[2], c[3], m, Num(20000), NameAb, Undef) :
          c \in CoordCells, m \in MassCells }
    \cup
    { Row(Num(10000), Num(20000), Num(30000), m, Null, NameB, Num(0)) :
          m \in {Null, Num(90), Num(1000)} }
    \cup
    { Row(Num(30000), Num(10000), Num(-20000), Num(100), Num(40000), Null, Num(70)) }

\* the application runs: a galaxy on the default label threshold and on the
\* Local Group radius (9.0, 3 Mpc); a massive one beyond the Local Group
\* (10.0, 5 Mpc); one whose name cell is empty and whose mass cell is text
\* (2 Mpc)
AppRows ==
    { Row(Num(20000), Num(10000), Num(10000), Num(90), Num(30000), NameB, Undef),
      Row(Num(30000), Num(-10000), Num(20000), Num(100), Num(50000), NameAb, Undef),
      Row(Num(-10000), Num(30000), Num(20000), TextCell, Num(20000), Null, Undef) }

SeqsUpTo(S, n) == UNION { [1..k -> S] : k \in 0..n }

\* Math.log10 is exact in tenths only on powers of ten: a catalog the code
\* reads on the linear scale carries no other positive mass
ExactCatalog(rows) ==
    IsLinear(rows) =>
        \A i \in 1..Len(rows) :
            (rows[i].mass_stellar.t = "number" /\ rows[i].mass_stellar.n > 0)
                => IsPowerOfTen(rows[i].mass_stellar.n)

LoadCatalogs == { c \in SeqsUpTo(LoadRows, MaxLoadRows) : ExactCatalog(c) }
\* a catalog of the application runs lists no galaxy twice
Distinct(rows) == \A i, j \in 1..Len(rows) : rows[i] = rows[j] => i = j
AppCatalogs == { c \in SeqsUpTo(AppRows, MaxAppRows) : ExactCatalog(c) /\ Distinct(c) }

\* the mass sweep: one-row catalogs on the logarithmic scale, the mass cell
\* running over every tenth from -1.0 to 20.0, or empty, or text
SweepCells == { Num(k) : k \in (0 - 10)..LinearThreshold } \cup {Null, TextCell}
SweepRows ==
    { Row(Num(10000), Num(20000), Num(30000), m, Num(20000), NameAb, Undef) :
          m \in SweepCells }
SweepCatalogs == { <<r>> : r \in SweepRows }

\* the lowest position of the minimum-mass slider: min="4"
MinMassSliderMin == 40

\* the values in the RA, Dec and Dist fields when Locate is clicked: angles in
\* tenths of a degree, the distance in tenths
LocateInputs == { [ra |-> 900, dec |-> 0, dist |-> 20] }

\* the slider positions, checkbox states and search texts the runs use
MaxDistValues == {30, 110}
MinMassValues == {60, 100}
MassThresholdValues == {60, 90}
SearchQueries == { <<>>, <<"a">>, <<"B">> }

\* the err objects PapaParse's `error` callback passes: Error(statusText)
ErrorMessages == { Str(<<>>), Str(<<"4", "0", "4">>) }
FallbackMessage ==
    Str(<<"F", "a", "i", "l", "e", "d", " ", "t", "o", " ", "l", "o", "a", "d", " ",
          "d", "a", "t", "a">>)

-----------------------------------------------------------------------------
(* App (main.jsx): state, the load effect, the render.                     *)

\* useState(6.0), useState(11.0), useState(9.0)
InitMinMass == 60
InitMaxDist == 110
InitMassThreshold == 90

\* mutant of ProcessedDeps: minMass left out of the dependency list, so a
\* change of minMass alone never recomputes processedData
ProcessedDepsNoMinMass(d, md, mm, lg, q) == <<d, md, minMass, lg, q>>

\* the dependency list of processedData: [data, maxDist, minMass, showLocalGroup, searchQuery]
ProcessedDeps(d, md, mm, lg, q) == <<d, md, mm, lg, q>>

\* the dependency list of GalaxyParticles' useMemo: [data, massThreshold, searchActive]
ParticleDeps(ds, thr, searchActive) == <<ds, thr, searchActive>>

\* what GalaxyParticles' useMemo returned at the previous render
HeldBuffers ==
    [positions |-> positions, colors |-> colors, sizes |-> sizes, particles |-> particles,
     matchedGalaxy |-> matchedGalaxy, labeledGalaxies |-> labeledGalaxies]

\* the <Canvas> is gone with the tree that held it
CanvasUnmounted ==
    /\ canvasProps' = <<>>
    /\ positions' = <<>>
    /\ colors' = <<>>
    /\ sizes' = <<>>
    /\ particles' = <<>>
    /\ matchedGalaxy' = <<>>
    /\ labeledGalaxies' = <<>>

\* One render of App with the given state: processedData and the early
\* returns on loading and error.  A useMemo runs its body on mount and when a
\* dependency differs from the previous render's, and returns the value it
\* holds otherwise.  An exception raised while rendering unmounts the whole
\* tree.  Scene hands its children to <Canvas>, which renders them in a root
\* of its own in a later task (RenderCanvas): until then the point cloud is
\* the one of the previous props.
Render(d, ld, er, lg, mm, md, thr, q) ==
    \E pd \in {IF ProcessedDeps(d, md, mm, lg, q)
                     # ProcessedDeps(data, maxDist, minMass, showLocalGroup, searchQuery)
                 THEN ProcessedData(d, md, mm, lg, q)
                 ELSE [threw |-> FALSE, records |-> processedData]} :
        LET v == IF pd.threw THEN "crashed"
                 ELSE IF ld THEN "loading"
                 ELSE IF Truthy(er) THEN "error"
                 ELSE "scene"
        IN  /\ view' = v
            /\ thrown' = (IF pd.threw THEN "App" ELSE thrown)
            /\ processedData' = pd.records
            /\ IF v = "scene" THEN UNCHANGED canvas ELSE CanvasUnmounted

\* the props App's latest render handed to Scene (main.jsx 78-84)
SceneProps ==
    [data |-> processedData, massThreshold |-> massThreshold,
     searchActive |-> searchQuery # <<>>, userMarker |-> userMarker]

\* The render of <Canvas>'s root with the props of App's latest render:
\* GalaxyParticles' useMemo (on mount, or when a dependency differs from the
\* previous render's) and the user marker.
RenderCanvas ==
    /\ view = "scene"
    /\ canvasProps # <<SceneProps>>
    /\ canvasProps' = <<SceneProps>>
    /\ \E buf \in {IF \/ canvasProps = <<>>
                       \/ ParticleDeps(SceneProps.data, SceneProps.massThreshold,
                                       SceneProps.searchActive)
                              # ParticleDeps(canvasProps[1].data, canvasProps[1].massThreshold,
                                             canvasProps[1].searchActive)
                    THEN ParticleBuffers(SceneProps.data, SceneProps.massThreshold,
                                         SceneProps.searchActive)
                    ELSE HeldBuffers} :
           /\ positions' = buf.positions
           /\ colors' = buf.colors
           /\ sizes' = buf.sizes
           /\ particles' = buf.particles
           /\ matchedGalaxy' = buf.matchedGalaxy
           /\ labeledGalaxies' = buf.labeledGalaxies
    /\ UNCHANGED <<loadState, appState, hoveredGalaxy, hoverUpdate, pointer, view, thrown,
                   processedData>>

InitApp ==
    /\ promise = "pending"
    /\ massScale = "unset"
    /\ data = <<>>
    /\ loading = TRUE
    /\ error = Null
    /\ showLocalGroup = FALSE
    /\ minMass = InitMinMass
    /\ maxDist = InitMaxDist
    /\ massThreshold = InitMassThreshold
    /\ searchQuery = <<>>
    /\ userMarker = <<>>
    /\ hoveredGalaxy = <<>>
    /\ hoverUpdate = <<>>
    /\ pointer = [kind |-> "none", index |-> 0]
    /\ view = "loading"
    /\ thrown = "none"
    /\ processedData = <<>>
    /\ canvasProps = <<>>
    /\ positions = <<>>
    /\ colors = <<>>
    /\ sizes = <<>>
    /\ particles = <<>>
    /\ matchedGalaxy = <<>>
    /\ labeledGalaxies = <<>>

Init == rawRows \in AppCatalogs /\ InitApp
InitLoad == rawRows \in LoadCatalogs /\ InitApp
InitSweep == rawRows \in SweepCatalogs /\ InitApp

\* loadData(...).then(d => { setData(d); setLoading(false) })
LoadResolve ==
    /\ promise = "pending"
    /\ promise' = "resolved"
    /\ LET r == LoadData(rawRows)
       IN  /\ massScale' = r.scale
           /\ data' = r.records
           /\ loading' = FALSE
           /\ Render(r.records, FALSE, error, showLocalGroup, minMass, maxDist,
                     massThreshold, searchQuery)
    /\ UNCHANGED <<rawRows, error, appState, hoveredGalaxy, hoverUpdate, pointer>>

\* mutant of ErrorText: the message stored without the fallback
ErrorTextNoFallback(message) == message

\* .catch(err => { setError(err.message || "Failed to load data"); setLoading(false) })
ErrorText(message) == JsOr(message, FallbackMessage)

LoadReject(message) ==
    /\ promise = "pending"
    /\ promise' = "rejected"
    /\ error' = ErrorText(message)
    /\ loading' = FALSE
    /\ Render(data, FALSE, ErrorText(message), showLocalGroup, minMass, maxDist,
              massThreshold, searchQuery)
    /\ UNCHANGED <<rawRows, massScale, data, appState, hoveredGalaxy, hoverUpdate, pointer>>

\* the controls exist only while App renders Scene and UIOverlay
SetMaxDist(v) ==
    /\ view = "scene"
    /\ maxDist' = v
    /\ Render(data, loading, error, showLocalGroup, minMass, v, massThreshold, searchQuery)
    /\ UNCHANGED <<loadState, showLocalGroup, minMass, massThreshold, searchQuery,
                   userMarker, hoveredGalaxy, hoverUpdate, pointer>>

SetMinMass(v) ==
    /\ view = "scene"
    /\ minMass' = v
    /\ Render(data, loading, error, showLocalGroup, v, maxDist, massThreshold, searchQuery)
    /\ UNCHANGED <<loadState, showLocalGroup, maxDist, massThreshold, searchQuery,
                   userMarker, hoveredGalaxy, hoverUpdate, pointer>>

SetShowLocalGroup(b) ==
    /\ view = "scene"
    /\ showLocalGroup' = b
    /\ Render(data, loading, error, b, minMass, maxDist, massThreshold, searchQuery)
    /\ UNCHANGED <<loadState, minMass, maxDist, massThreshold, searchQuery,
                   userMarker, hoveredGalaxy, hoverUpdate, pointer>>

SetMassThreshold(v) ==
    /\ view = "scene"
    /\ massThreshold' = v
    /\ Render(data, loading, error, showLocalGroup, minMass, maxDist, v, searchQuery)
    /\ UNCHANGED <<loadState, showLocalGroup, minMass, maxDist, searchQuery,
                   userMarker, hoveredGalaxy, hoverUpdate, pointer>>

SetSearchQuery(q) ==
    /\ view = "scene"
    /\ searchQuery' = q
    /\ Render(data, loading, error, showLocalGroup, minMass, maxDist, massThreshold, q)
    /\ UNCHANGED <<loadState, showLocalGroup, minMass, maxDist, massThreshold,
                   userMarker, hoveredGalaxy, hoverUpdate, pointer>>

\* Math.cos and Math.sin of a * (Math.PI / 180) at the right angles the runs
\* use (a in tenths of a degree); the results are taken to the nearest tenth,
\* which drops the 6e-17 that Math.cos(Math.PI / 2) returns
CosDeg(a) == CASE a = 0 -> 1 [] a = 900 -> 0 [] a = 1800 -> 0 - 1 [] a = 2700 -> 0
SinDeg(a) == CASE a = 0 -> 0 [] a = 900 -> 1 [] a = 1800 -> 0 [] a = 2700 -> 0 - 1

\* handleLocate: x = dist cos(dec) cos(ra), y = dist cos(dec) sin(ra),
\* z = dist sin(dec); setUserMarker({ x, y, z }).  App's render that follows
\* finds every dependency list unchanged.
Locate(ra, dec, dist) ==
    /\ view = "scene"
    /\ userMarker' = << [x |-> dist * CosDeg(dec) * CosDeg(ra),
                         y |-> dist * CosDeg(dec) * SinDeg(ra),
                         z |-> dist * SinDeg(dec)] >>
    /\ Render(data, loading, error, showLocalGroup, minMass, maxDist, massThreshold,
              searchQuery)
    /\ UNCHANGED <<loadState, showLocalGroup, minMass, maxDist, massThreshold, searchQuery,
                   hoveredGalaxy, hoverUpdate, pointer>>

\* Scene: {userMarker && <BlinkingMarker position={userMarker} />}; <<>> when
\* no user marker is rendered
UserMarkerPosition ==
    IF canvasProps = <<>> THEN <<>>
    ELSE IF canvasProps[1].userMarker = <<>> THEN <<>>
    ELSE <<canvasProps[1].userMarker[1].x, canvasProps[1].userMarker[1].y,
           canvasProps[1].userMarker[1].z>>

\* UIOverlay's info panel: hoveredGalaxy.dist_mpc.toFixed(2) and
\* hoveredGalaxy.mass_log.toFixed(1) raise a TypeError on a value that is no number
InfoPanelThrows(g) == g.dist_mpc.t # "number" \/ g.mass_log.t # "number"

\* mutant of PointerMove: the picked index looked up in the unfiltered data
PointerMoveIntoData(index) ==
    /\ view = "scene"
    /\ index \in 0..(Len(particles) - 1)
    /\ hoverUpdate' = << <<WithOriginalIndex(WithIsMatch(data[index + 1], TRUE), index)>> >>
    /\ pointer' = [kind |-> "move", index |-> index]
    /\ UNCHANGED <<loadState, appState, hoveredGalaxy, view, thrown, rendered>>

\* onPointerMove: R3F raises it on <points> with the index of the picked point;
\* if (e.index !== undefined) onHover(particles[e.index]).  The handler runs
\* in a native pointermove listener: setHoveredGalaxy queues the update and
\* React renders it in a later task; a later call replaces the queued value.
PointerMove(index) ==
    /\ view = "scene"
    /\ index \in 0..(Len(particles) - 1)
    /\ hoverUpdate' = << <<particles[index + 1]>> >>
    /\ pointer' = [kind |-> "move", index |-> index]
    /\ UNCHANGED <<loadState, appState, hoveredGalaxy, view, thrown, rendered>>

\* onPointerOut: onHover(null), queued the same way; the handler exists once
\* <Canvas>'s root has rendered <points>
PointerOut ==
    /\ view = "scene"
    /\ canvasProps # <<>>
    /\ hoverUpdate' = << <<>> >>
    /\ pointer' = [kind |-> "out", index |-> 0]
    /\ UNCHANGED <<loadState, appState, hoveredGalaxy, view, thrown, rendered>>

\* the render React schedules for the queued setHoveredGalaxy: hoveredGalaxy
\* takes the queued value, processedData and the particle arrays are memoized,
\* the info panel is drawn anew and unmounts the tree when it raises
RenderHover ==
    /\ view = "scene"
    /\ hoverUpdate # <<>>
    /\ hoveredGalaxy' = hoverUpdate[1]
    /\ hoverUpdate' = <<>>
    /\ IF hoverUpdate[1] # <<>> /\ InfoPanelThrows(hoverUpdate[1][1])
       THEN /\ view' = "crashed"
            /\ thrown' = "UIOverlay"
            /\ processedData' = <<>>
            /\ CanvasUnmounted
       ELSE UNCHANGED <<view, thrown, rendered>>
    /\ UNCHANGED <<loadState, appState, pointer>>

LoadRejects == \E m \in ErrorMessages : LoadReject(m)
SetsMaxDist == \E v \in MaxDistValues : SetMaxDist(v)
SetsMinMass == \E v \in MinMassValues : SetMinMass(v)
SetsShowLocalGroup == \E b \in BOOLEAN : SetShowLocalGroup(b)
SetsMassThreshold == \E v \in MassThresholdValues : SetMassThreshold(v)
SetsSearchQuery == \E q \in SearchQueries : SetSearchQuery(q)
PointerMoves == \E i \in 0..MaxAppRows : PointerMove(i)
Locates == \E l \in LocateInputs : Locate(l.ra, l.dec, l.dist)

Next ==
    \/ LoadResolve
    \/ LoadRejects
    \/ SetsMaxDist
    \/ SetsMinMass
    \/ SetsShowLocalGroup
    \/ SetsMassThreshold
    \/ SetsSearchQuery
    \/ PointerMoves
    \/ PointerOut
    \/ RenderHover
    \/ RenderCanvas
    \/ Locates

Spec == Init /\ [][Next]_vars

\* the load alone, over the wider catalogs
NextLoad ==
    \/ LoadResolve
    \/ LoadRejects

SpecLoad == InitLoad /\ [][NextLoad]_vars

\* the mass sweep: the load, and the minimum-mass slider at its default and
\* at its lowest position
SetsMinMassLow == \E v \in {MinMassSliderMin, InitMinMass} : SetMinMass(v)

NextSweep ==
    \/ LoadResolve
    \/ LoadRejects
    \/ SetsMinMassLow
    \/ RenderCanvas

SpecSweep == InitSweep /\ [][NextSweep]_vars

\* the filter controls and the threshold alone; <Canvas> schedules the render
\* of its root whenever App has rendered, so that render is not put off for ever
NextRender ==
    \/ LoadResolve
    \/ LoadRejects
    \/ SetsMaxDist
    \/ SetsMinMass
    \/ SetsShowLocalGroup
    \/ SetsMassThreshold
    \/ SetsSearchQuery
    \/ RenderCanvas

SpecRender == Init /\ [][NextRender]_vars /\ WF_vars(RenderCanvas)

-----------------------------------------------------------------------------
(* Claims.                                                                 *)

\* a record of the canonical model: numeric dist_mpc and mass_log, a text name
Canonical(d) ==
    d.dist_mpc.t = "number" /\ d.mass_log.t = "number" /\ d.name.t = "string"

CanonicalData == \A i \in 1..Len(data) : Canonical(data[i])

\* the membership condition as the specification words it
Qualifies(d) ==
    /\ d.dist_mpc.n <= maxDist
    /\ d.mass_log.n >= minMass
    /\ showLocalGroup => d.dist_mpc.n <= 30

\* C1: for a canonical record sequence and any filter state, the filtered
\* sequence holds exactly the records with dist_mpc <= maxDist, mass_log >=
\* minMass and (if showLocalGroup) dist_mpc <= 3.0, in the order of the input.
C1_FilterExact ==
    CanonicalData =>
        LET expected == SelectSeq(data, Qualifies)
        IN  /\ Len(processedData) = Len(expected)
            /\ \A i \in 1..Len(expected) :
                   processedData[i] = WithIsMatch(expected[i], processedData[i].isMatch)

\* a loaded canonical catalog of two records, a search typed, one record cut
\* by the filter and one kept on the boundary of the cut
C1_Witness ==
    /\ view = "scene"
    /\ CanonicalData
    /\ Len(data) = 2
    /\ searchQuery # <<>>
    /\ Len(processedData) = 1
    /\ \/ processedData[1].dist_mpc.n = maxDist
       \/ processedData[1].mass_log.n = minMass
       \/ showLocalGroup /\ processedData[1].dist_mpc.n = 30

\* C2: every surviving record carries isMatch, true iff searchQuery is empty
\* or the lower-cased query is a substring of the lower-cased name, whatever
\* the name field is; the annotation never fails.
C2_IsMatchAnnotated ==
    /\ thrown # "App"
    /\ \A i \in 1..Len(processedData) :
           processedData[i].isMatch =
               (\/ searchQuery = <<>>
                \/ Includes(ToLowerCase(processedData[i].name.s),
                            ToLowerCase(searchQuery)))

\* a cell the parser read as empty or a key the row does not carry
Missing(v) == v = Null \/ v = Undef

RowComplete(r) == ~Missing(r.sg_xx) /\ ~Missing(r.sg_yy) /\ ~Missing(r.sg_zz)

SameRow(d, r) ==
    /\ d.sg_xx = r.sg_xx /\ d.sg_yy = r.sg_yy /\ d.sg_zz = r.sg_zz
    /\ d.mass_stellar = r.mass_stellar /\ d.distance = r.distance /\ d.name = r.name

\* C3: normalization emits one record per row whose three coordinates are
\* all non-null and none for any other row, in input order; the output
\* length is the input length minus the number of rows missing a coordinate.
C3_CompleteRowsKept ==
    promise = "resolved" =>
        LET expected == SelectSeq(rawRows, RowComplete)
            dropped == {i \in 1..Len(rawRows) : ~RowComplete(rawRows[i])}
        IN  /\ Len(data) = Len(rawRows) - Cardinality(dropped)
            /\ Len(data) = Len(expected)
            /\ \A i \in 1..Len(expected) : SameRow(data[i], expected[i])

\* a resolved load of two rows whose first row lacks a coordinate
C3_Witness ==
    /\ promise = "resolved"
    /\ Len(rawRows) = 2
    /\ ~RowComplete(rawRows[1])
    /\ Len(data) = 1
    /\ SameRow(data[1], rawRows[2])

\* C4: every emitted record's id is its index among the emitted records, so
\* no two records of a load share an id, whatever columns the rows carry.
C4_IdIsSequenceIndex ==
    promise = "resolved" =>
        /\ \A i \in 1..Len(data) : data[i].id = Num((i - 1) * 10)
        /\ \A i, j \in 1..Len(data) : i # j => data[i].id # data[j].id

\* the scale decision as the specification words it: some parsed row's
\* mass_stellar exceeds 20
SomeMassAbove20 ==
    \E i \in 1..Len(rawRows) :
        rawRows[i].mass_stellar.t = "number" /\ rawRows[i].mass_stellar.n > 200

\* C5: one scale decision per load, taken over all parsed rows: when the
\* largest mass_stellar exceeds 20 every emitted record with mass_stellar > 0
\* gets mass_log = log10(mass_stellar); otherwise every emitted record gets
\* mass_log = mass_stellar unchanged (a missing mass counting as 0).
C5_OneScalePerLoad ==
    (promise = "resolved" /\ rawRows # <<>>) =>
        /\ massScale = (IF SomeMassAbove20 THEN "Linear" ELSE "Log")
        /\ \A i \in 1..Len(data) :
               LET m == data[i].mass_stellar
               IN  IF SomeMassAbove20
                   THEN (m.t = "number" /\ m.n > 0) => data[i].mass_log = Num(Log10(m.n))
                   ELSE data[i].mass_log = (IF Missing(m) THEN Num(0) ELSE m)

\* a linear load whose only mass above 20 sits in a dropped row, and whose
\* emitted record has a mass of 1.0, log-transformed to 0
C5_Witness ==
    /\ promise = "resolved"
    /\ massScale = "Linear"
    /\ Len(rawRows) = 2
    /\ Len(data) = 1
    /\ data[1].mass_stellar = Num(10)
    /\ data[1].mass_log = Num(0)

\* C6: every emitted record's mass_log is a finite number, and a row whose
\* mass_stellar is missing or exactly 0 gets mass_log = 0.
C6_MassLogFinite ==
    promise = "resolved" =>
        \A i \in 1..Len(data) :
            /\ data[i].mass_log.t = "number"
            /\ (Missing(data[i].mass_stellar) \/ data[i].mass_stellar = Num(0))
                   => data[i].mass_log = Num(0)

\* what the point cloud on screen was rendered from: the filtered sequence,
\* the search flag and the threshold of the latest render of <Canvas>'s root
RenderedSequence == IF canvasProps = <<>> THEN <<>> ELSE canvasProps[1].data
RenderedSearchActive == canvasProps # <<>> /\ canvasProps[1].searchActive
RenderedThreshold == canvasProps[1].massThreshold

\* <Canvas>'s root has rendered the props of App's latest render
CanvasCurrent == view = "scene" /\ canvasProps = <<SceneProps>>

\* the positions of the rendered filtered sequence whose record matches the
\* search
Matches == {i \in 1..Len(RenderedSequence) : RenderedSequence[i].isMatch}
FirstMatch == CHOOSE i \in Matches : \A j \in Matches : i <= j
LastMatch == CHOOSE i \in Matches : \A j \in Matches : i >= j

SeveralMatch == view = "scene" /\ RenderedSearchActive /\ Cardinality(Matches) > 1

\* C7 as stated: with a non-empty search and more than one matching record,
\* the blinking marker is placed at the first matching record of the filtered
\* sequence.
C7_MarkerAtFirstMatch ==
    SeveralMatch => MarkerPosition = PositionOf(RenderedSequence[FirstMatch])

\* C7 amended: with a non-empty search and more than one matching record, the
\* blinking marker is placed at the last matching record of the filtered
\* sequence.
C7_MarkerAtLastMatch ==
    SeveralMatch => MarkerPosition = PositionOf(RenderedSequence[LastMatch])

\* two matching records at different positions, the marker on the second
C7_Witness ==
    /\ SeveralMatch
    /\ CanvasCurrent
    /\ PositionOf(RenderedSequence[FirstMatch]) # PositionOf(RenderedSequence[LastMatch])
    /\ MarkerPosition = PositionOf(RenderedSequence[LastMatch])

C8_StateOK ==
    /\ loading <=> promise = "pending"
    /\ loading => view = "loading"
    /\ promise = "rejected" =>
           /\ error.t = "string" /\ error.s # <<>>
           /\ view = "error"
           /\ data = <<>> /\ processedData = <<>>
           /\ positions = <<>> /\ colors = <<>> /\ sizes = <<>>
           /\ particles = <<>> /\ labeledGalaxies = <<>> /\ matchedGalaxy = <<>>
    /\ promise = "resolved" => error = Null
    /\ view = "scene" => promise = "resolved"

C8_Step ==
    /\ (promise = "pending" /\ promise' = "resolved") => data' = LoadData(rawRows).records
    /\ promise # "pending" => promise' = promise /\ data' = data /\ error' = error
    /\ promise = "rejected" => view' = "error"

\* C8: the load is one-shot.  The app shows the loading state from startup
\* until the load resolves or fails; a failed load leaves a terminal error
\* state with a message and no catalog data; a resolved load leaves loading
\* with the full record set and no error; the scene is shown neither while
\* loading nor after an error.
C8_LoadOneShot == C8_StateOK /\ [][C8_StateOK' /\ C8_Step]_vars

\* a failed load of a non-empty catalog whose error carried no message
C8_Witness ==
    /\ promise = "rejected"
    /\ rawRows # <<>>
    /\ error = FallbackMessage
    /\ view = "error"

\* C9 as stated: every pointer movement over the point cloud reports to the
\* hover callback the record at the picked index of the current filtered
\* sequence, and the pointer leaving the cloud reports null; the value the app
\* then takes as hoveredGalaxy is the last one reported.
C9_HoverFollowsPointer ==
    [][(pointer' # pointer \/ hoverUpdate' # hoverUpdate \/ hoveredGalaxy' # hoveredGalaxy) =>
          \/ /\ pointer'.kind = "move"
             /\ pointer'.index + 1 \in 1..Len(processedData)
             /\ hoverUpdate' =
                    << <<WithOriginalIndex(processedData[pointer'.index + 1],
                                           pointer'.index)>> >>
             /\ hoveredGalaxy' = hoveredGalaxy
          \/ /\ pointer'.kind = "out"
             /\ hoverUpdate' = << <<>> >>
             /\ hoveredGalaxy' = hoveredGalaxy
          \/ /\ pointer' = pointer
             /\ hoverUpdate # <<>>
             /\ hoverUpdate' = <<>>
             /\ hoveredGalaxy' = hoverUpdate[1]]_vars

\* C9 amended: every pointer movement over the point cloud reports to the
\* hover callback the record at the picked index of the filtered sequence the
\* point cloud on screen was rendered from, which is the current filtered
\* sequence once <Canvas>'s root has rendered App's latest render; the pointer
\* leaving the cloud reports null; the value the app then takes as
\* hoveredGalaxy is the last one reported, so it never refers to a hit the
\* latest pointer event did not produce.
C9_HoverFollowsPointCloud ==
    [][(pointer' # pointer \/ hoverUpdate' # hoverUpdate \/ hoveredGalaxy' # hoveredGalaxy) =>
          \/ /\ pointer'.kind = "move"
             /\ pointer'.index + 1 \in 1..Len(RenderedSequence)
             /\ hoverUpdate' =
                    << <<WithOriginalIndex(RenderedSequence[pointer'.index + 1],
                                           pointer'.index)>> >>
             /\ CanvasCurrent =>
                    hoverUpdate' =
                        << <<WithOriginalIndex(processedData[pointer'.index + 1],
                                               pointer'.index)>> >>
             /\ hoveredGalaxy' = hoveredGalaxy
          \/ /\ pointer'.kind = "out"
             /\ hoverUpdate' = << <<>> >>
             /\ hoveredGalaxy' = hoveredGalaxy
          \/ /\ pointer' = pointer
             /\ hoverUpdate # <<>>
             /\ hoverUpdate' = <<>>
             /\ hoveredGalaxy' = hoverUpdate[1]]_vars

\* the filter has cut the first record of a two-record catalog and <Canvas>'s
\* root has not rendered the cut yet: the pointer is on the second point of the
\* cloud still on screen and the record reported is the second of the rendered
\* sequence, which the current sequence holds at index 0
C9_Witness ==
    /\ view = "scene"
    /\ Len(data) = 2
    /\ Len(RenderedSequence) = 2
    /\ Len(processedData) = 1
    /\ processedData[1].id = data[2].id
    /\ pointer = [kind |-> "move", index |-> 1]
    /\ hoverUpdate = << <<WithOriginalIndex(RenderedSequence[2], 1)>> >>

\* C10: an empty catalog is a valid result: the load resolves with no
\* record and no mass scan, the app leaves loading with no error, and the
\* filter and the attribute arrays are empty in every filter state.
C10_EmptyCatalog ==
    (rawRows = <<>> /\ promise = "resolved") =>
        /\ massScale = "unset"
        /\ data = <<>>
        /\ ~loading
        /\ error = Null
        /\ view = "scene"
        /\ processedData = <<>>
        /\ positions = <<>> /\ colors = <<>> /\ sizes = <<>>
        /\ particles = <<>> /\ labeledGalaxies = <<>> /\ matchedGalaxy = <<>>

\* the empty catalog shown with every filter moved off its default
C10_Witness ==
    /\ rawRows = <<>>
    /\ view = "scene"
    /\ showLocalGroup
    /\ searchQuery # <<>>
    /\ maxDist # InitMaxDist
    /\ minMass # InitMinMass
    /\ massThreshold # InitMassThreshold

\* the size the specification gives a mass_log (tenths): 1.5 below 8.0, 2.5
\* from 8.0 up to but not including 10.0, 4.0 from 10.0 on
SizeFor(m) == IF m < 80 THEN 15 ELSE IF m < 100 THEN 25 ELSE 40

\* C11: the point size of a record depends only on its mass_log: 1.5 when
\* mass_log < 8.0, 2.5 when 8.0 <= mass_log < 10.0, 4.0 when mass_log >= 10.0
\* (8.0 maps to 2.5, 10.0 to 4.0), and no record gets any other size.  Checked
\* on the sizes array of every state and on the function over the whole sweep.
C11_SizeBuckets ==
    /\ Len(sizes) = Len(particles)
    /\ \A i \in 1..Len(sizes) :
           /\ sizes[i] \in {15, 25, 40}
           /\ particles[i].mass_log.t = "number"
                  => sizes[i] = SizeFor(particles[i].mass_log.n)
    /\ \A c \in SweepCells :
           /\ BaseSize(c) \in {15, 25, 40}
           /\ c.t = "number" => BaseSize(c) = SizeFor(c.n)
    /\ BaseSize(Num(80)) = 25
    /\ BaseSize(Num(100)) = 40

\* a record of mass_log exactly 10.0 drawn with size 4.0
C11_Witness ==
    /\ view = "scene"
    /\ Len(particles) = 1
    /\ particles[1].mass_log = Num(100)
    /\ sizes = <<40>>

\* the palette read as the specification words it, for a mass_log in tenths:
\* t = clamp((m - 60) / 55, 0, 1) as a numerator over 55; the control points
\* sit at 0, 11, .., 55; the channels are numerators over 11
ClampT(m) == IF m <= 60 THEN 0 ELSE IF m >= 115 THEN 55 ELSE m - 60
PaletteAt(m) ==
    LET t == ClampT(m)
        k == t \div 11
        f == t % 11
    IN  IF f = 0
        THEN [ch \in 1..3 |-> 11 * ColorStops[k + 1].c[ch]]
        ELSE [ch \in 1..3 |->
                 (11 - f) * ColorStops[k + 1].c[ch] + f * ColorStops[k + 2].c[ch]]

\* C12: the colour of a record is the palette interpolated at
\* t = clamp((mass_log - 6.0) / 5.5, 0, 1): mass_log <= 6.0 gives the first
\* palette colour, mass_log >= 11.5 the last, a t on a control point that
\* control point's colour, any other t the channel-wise linear interpolation
\* of the two control points around it.  Checked on the colour array of every
\* state and on the function over the whole sweep.
C12_PaletteInterpolation ==
    /\ Len(colors) = 3 * Len(particles)
    /\ \A i \in 1..Len(particles) :
           particles[i].mass_log.t = "number" =>
               SubSeq(colors, 3 * i - 2, 3 * i) = PaletteAt(particles[i].mass_log.n)
    /\ \A c \in SweepCells :
           c.t = "number" =>
               /\ GetMagmaColor(c) = PaletteAt(c.n)
               /\ c.n <= 60 => GetMagmaColor(c) = StopColor(ColorStops[1])
               /\ c.n >= 115 => GetMagmaColor(c) = StopColor(ColorStops[6])

\* a record below the colour range (mass_log < 6.0) on screen, which takes
\* the minimum-mass slider below its default, drawn in the first colour
C12_Witness ==
    /\ view = "scene"
    /\ Len(particles) = 1
    /\ particles[1].mass_log.t = "number"
    /\ particles[1].mass_log.n < 60
    /\ colors = <<0, 0, 44>>

\* mass_log strictly above the threshold, as the specification words it
AboveThreshold(d) == d.mass_log.t = "number" /\ d.mass_log.n > RenderedThreshold

\* C13: for every filtered sequence and every massThreshold, the labelled
\* records are exactly the records of the filtered sequence with mass_log >
\* massThreshold (a record on the threshold is not labelled), one label per
\* such record, in sequence order, each showing that record's name.  Checked
\* on the labels on screen against the sequence and threshold they were
\* rendered with, and on the label build for the current filtered sequence
\* with every threshold.
C13_LabelsAboveThreshold ==
    /\ LET expected == SelectSeq(RenderedSequence, AboveThreshold)
       IN  /\ labeledGalaxies = expected
           /\ Len(Labels) = Len(expected)
           /\ \A i \in 1..Len(expected) :
                  /\ Labels[i].text = expected[i].name
                  /\ Labels[i].position =
                         <<expected[i].x.n + 5, expected[i].y.n + 5, expected[i].z.n>>
    /\ \A thr \in MassThresholdValues \cup {InitMassThreshold} :
           BuildLabeled(processedData, thr)
               = SelectSeq(processedData,
                           LAMBDA d : d.mass_log.t = "number" /\ d.mass_log.n > thr)

\* two records on screen, both above the threshold and labelled in sequence
\* order, each label showing its record's name
C13_Witness ==
    /\ CanvasCurrent
    /\ Len(processedData) = 2
    /\ processedData[1].name # processedData[2].name
    /\ labeledGalaxies = processedData
    /\ Labels[1].text = processedData[1].name
    /\ Labels[2].text = processedData[2].name

\* the filter result of the current state
CurrentFilterResult ==
    ProcessedData(data, maxDist, minMass, showLocalGroup, searchQuery).records

\* the three arrays are those of one build from the sequence `result`
ArraysBuiltFrom(result) ==
    /\ Len(positions) = 3 * Len(result)
    /\ Len(colors) = 3 * Len(result)
    /\ Len(sizes) = Len(result)
    /\ \A i \in 1..Len(result) :
           /\ SubSeq(positions, 3 * i - 2, 3 * i)
                  = <<result[i].x.n, result[i].y.n, result[i].z.n>>
           /\ SubSeq(colors, 3 * i - 2, 3 * i) = GetMagmaColor(result[i].mass_log)
           /\ sizes[i] = BaseSize(result[i].mass_log)

\* C14 as stated: after any sequence of changes to maxDist, minMass,
\* showLocalGroup, searchQuery and massThreshold, the three attribute arrays
\* are those built from the filter result of the most recent state: position
\* and colour have length 3n and size has length n for its n records, and
\* entry i of each array belongs to record i of that result.
C14_ArraysOfLatestFilter ==
    view = "scene" =>
        /\ processedData = CurrentFilterResult
        /\ ArraysBuiltFrom(CurrentFilterResult)

\* the filter states of the runs
FilterStates ==
    (MaxDistValues \cup {InitMaxDist}) \X (MinMassValues \cup {InitMinMass})
        \X BOOLEAN \X SearchQueries

\* the three arrays are those of one build from the filter result of one
\* filter state
ArraysOfOneFilterState ==
    \E fs \in FilterStates :
        \E r \in {ProcessedData(data, fs[1], fs[2], fs[3], fs[4])} :
            ~r.threw /\ ArraysBuiltFrom(r.records)

\* C14 amended: after any sequence of changes to maxDist, minMass,
\* showLocalGroup, searchQuery and massThreshold, the filtered sequence is the
\* filter result of the most recent state, and the three attribute arrays are
\* those of one build from the filter result of one filter state (position and
\* colour of length 3n, size of length n, entry i belonging to its record i),
\* never a pairing of arrays of different filter states; they are those of the
\* most recent state once <Canvas>'s root has rendered App's latest render,
\* and a root that is behind is always followed by that render or by the
\* unmounting of the scene.
C14_ArraysOfRenderedFilter ==
    /\ [](view = "scene" =>
            /\ processedData = CurrentFilterResult
            /\ \/ canvasProps = <<>> /\ ArraysBuiltFrom(<<>>)
               \/ ArraysOfOneFilterState
            /\ CanvasCurrent => ArraysBuiltFrom(CurrentFilterResult))
    /\ (view = "scene" /\ ~CanvasCurrent)
           ~> (view # "scene" \/ (CanvasCurrent /\ ArraysBuiltFrom(CurrentFilterResult)))

\* two records loaded, the minimum mass, the threshold and the search moved
\* off their defaults, and a filter result of one record, the second of the
\* catalog, rendered by <Canvas>'s root
C14_Witness ==
    /\ CanvasCurrent
    /\ Len(data) = 2
    /\ minMass # InitMinMass
    /\ massThreshold # InitMassThreshold
    /\ searchQuery # <<>>
    /\ Len(sizes) = 1
    /\ positions = <<data[2].x.n, data[2].y.n, data[2].z.n>>
    /\ data[1].x # data[2].x

\* C15: in every state in which the scene is displayed, after any
\* interleaving of pointer events and changes to the filter state or to
\* massThreshold, hoveredGalaxy is null or a record of the currently filtered
\* sequence: no change of filter or threshold leaves a stale hovered record
\* displayed.
C15_HoverNeverStale ==
    view = "scene" =>
        \/ hoveredGalaxy = <<>>
        \/ \E i \in 1..Len(processedData) :
               hoveredGalaxy[1] = WithOriginalIndex(processedData[i], i - 1)

\* some record of the sequence carries isMatch = true
SomeMatch(records) == \E i \in 1..Len(records) : records[i].isMatch

\* the search-match marker is rendered (matchedGalaxy is not null)
SearchMarkerShown == matchedGalaxy # <<>>

\* the state part of C16 as stated: when the search-match marker is shown
C16_SearchMarker ==
    /\ SearchMarkerShown <=> (searchQuery # <<>> /\ SomeMatch(processedData))
    /\ searchQuery = <<>> =>
           /\ ~SearchMarkerShown
           /\ \A i \in 1..Len(processedData) : processedData[i].isMatch
    /\ Len(matchedGalaxy) <= 1
    /\ SearchMarkerShown => MarkerPosition = PositionOf(matchedGalaxy[1])

\* the state part of C16 amended: the same of the search and the filtered
\* sequence the point cloud on screen was rendered from, which are the current
\* ones once <Canvas>'s root has rendered App's latest render
C16_RenderedSearchMarker ==
    /\ SearchMarkerShown <=> (RenderedSearchActive /\ SomeMatch(RenderedSequence))
    /\ ~RenderedSearchActive =>
           /\ ~SearchMarkerShown
           /\ \A i \in 1..Len(RenderedSequence) : RenderedSequence[i].isMatch
    /\ searchQuery = <<>> => \A i \in 1..Len(processedData) : processedData[i].isMatch
    /\ CanvasCurrent =>
           (SearchMarkerShown <=> (searchQuery # <<>> /\ SomeMatch(processedData)))
    /\ Len(matchedGalaxy) <= 1
    /\ SearchMarkerShown => MarkerPosition = PositionOf(matchedGalaxy[1])

\* a step that changes the filter state, the threshold, the search or the hover
C16_ControlStep ==
    \/ <<showLocalGroup, minMass, maxDist, massThreshold, searchQuery>>'
           # <<showLocalGroup, minMass, maxDist, massThreshold, searchQuery>>
    \/ <<hoveredGalaxy, hoverUpdate, pointer>>' # <<hoveredGalaxy, hoverUpdate, pointer>>

\* C16 as stated: the search-match marker is shown iff searchQuery is
\* non-empty and some record of the current filtered sequence has isMatch =
\* true; with an empty searchQuery no search-match marker is shown although
\* every record has isMatch = true; at most one search-match marker exists.
\* The user-located marker is independent: no change of filter state, search
\* or hover sets, moves or clears userMarker.
C16_MarkersIndependent ==
    /\ C16_SearchMarker
    /\ [][C16_SearchMarker' /\ (C16_ControlStep => userMarker' = userMarker)]_vars

\* C16 amended: the search-match marker is shown iff the search the point
\* cloud on screen was rendered with is non-empty and some record of the
\* filtered sequence it was rendered from has isMatch = true, and these are
\* the current searchQuery and filtered sequence once <Canvas>'s root has
\* rendered App's latest render; with an empty search no search-match marker
\* is shown although every record has isMatch = true; at most one search-match
\* marker exists.  The user-located marker is independent: no change of filter
\* state, search or hover sets, moves or clears userMarker.
C16_MarkersRendered ==
    /\ C16_RenderedSearchMarker
    /\ [][C16_RenderedSearchMarker' /\ (C16_ControlStep => userMarker' = userMarker)]_vars

\* a user marker placed, then a search typed that matches a record on screen
\* while another record is hovered: both markers shown, each at its own place
C16_Witness ==
    /\ CanvasCurrent
    /\ userMarker # <<>>
    /\ UserMarkerPosition = <<0, 20, 0>>
    /\ searchQuery # <<>>
    /\ SearchMarkerShown
    /\ hoveredGalaxy # <<>>
    /\ hoveredGalaxy[1].isMatch = FALSE
    /\ Len(processedData) = 2

====
